---- MODULE Spec2Model ----
(***************************************************************************)
(* Model of the charger reconciliation loop (src/main.go): one pass        *)
(* fetches the unpaid ledger records page by page, validates each record,  *)
(* groups the accepted ones per customer, creates one invoice per customer *)
(* and writes the outcome back to every contributing ledger record, then   *)
(* sleeps and starts again.                                                *)
(*                                                                         *)
(* The ledger (Airtable) and the payment processor (Stripe) are external:  *)
(* every call to them may succeed or fail, chosen nondeterministically.    *)
(* Instants are counted in half days: the instant of midnight of day d is  *)
(* 2 * d, and 2 * d + 1 is noon of day d.  Days are days of March 2024.    *)
(* Amounts are counted in thousandths of the major unit (12500 = 12.50).   *)
(***************************************************************************)
EXTENDS Integers, Sequences, FiniteSets, TLC

\* ------------------------------------------------------------------ bounds

\* Number of records stored in the ledger.
NumRecords == 3

\* Most records the ledger returns in one list call (the code asks for 100).
MaxPage == 2

\* Last instant (in half days) the clock may reach.
MaxNow == 23

\* Most calls to the ledger and to the payment processor that fail in a run.
MaxFaults == 1

\* STALE_DAYS when the environment gives none.
staleDays == -7

\* ------------------------------------------------- loosely typed field values

\* A value of a record's field map: t is its dynamic type, s its string (for a
\* link list, its first element printed with %v, "" when the list is empty),
\* n its number (for a link list, its length).
None == [t |-> "none", s |-> "", n |-> 0]

Str(x) == [t |-> "string", s |-> x, n |-> 0]

Num(x) == [t |-> "number", s |-> "", n |-> x]

Bool(b) == [t |-> "bool", s |-> IF b THEN "true" ELSE "false", n |-> 0]

List(len, first) == [t |-> "list", s |-> first, n |-> len]

\* val, ok := record.Fields[column]
Has(val) == val.t # "none"

\* fmt.Sprintf("%v", val)
SprintfV(val) ==
    CASE val.t = "string" -> val.s
      [] val.t = "bool" -> val.s
      [] val.t = "number" -> ToString(val.n)
      [] val.t = "list" -> IF val.n = 0 THEN "[]" ELSE "[" \o val.s \o "]"
      [] OTHER -> "<nil>"

\* fmt.Sprintf("%s", val)
SprintfS(val) ==
    IF val.t = "string" THEN val.s ELSE "%!s(" \o val.t \o "=" \o SprintfV(val) \o ")"

\* strings.ToLower over the strings the ledger holds
ToLower(s) ==
    CASE s = "USD" -> "usd"
      [] s = "Usd" -> "usd"
      [] s = "EUR" -> "eur"
      [] OTHER -> s

\* time.ParseInLocation("2006-01-02", s, loc): err, or the day whose midnight
\* in loc is the result.
ParseInLocation(s) ==
    CASE s = "2024-03-01" -> [err |-> FALSE, day |-> 1]
      [] s = "2024-03-03" -> [err |-> FALSE, day |-> 3]
      [] s = "2024-03-04" -> [err |-> FALSE, day |-> 4]
      [] s = "2024-03-05" -> [err |-> FALSE, day |-> 5]
      [] s = "2024-03-09" -> [err |-> FALSE, day |-> 9]
      [] s = "2024-03-10" -> [err |-> FALSE, day |-> 10]
      [] s = "2024-03-11" -> [err |-> FALSE, day |-> 11]
      [] OTHER -> [err |-> TRUE, day |-> 0]

\* The instant of midnight of a day.
Midnight(day) == 2 * day

\* t.AddDate(0, 0, days)
AddDate(t, days) == t + 2 * days

\* int64(f) of a float64 counted in thousandths, scaled by 100: truncation
\* toward zero of amount * 100.
MinorUnits(amount) == IF amount >= 0 THEN amount \div 10 ELSE -((-amount) \div 10)

\* ------------------------------------------------------------ ledger records

\* A record every validation rule accepts: billed on 9 March, serviced on
\* 5 March, customer cus_A, 12.50 usd.
BaseFields ==
    [paid |-> None, notes |-> None, date |-> Str("2024-03-09"),
     dateServiced |-> Str("2024-03-05"), customerID |-> Str("cus_A"),
     currencyCode |-> Str("usd"), amount |-> Num(12500), quantity |-> Num(1),
     item |-> Str("Cleaning"), property |-> Str("Unit 1")]

\* The values a ledger column may hold, column by column.
PaidValues == {None, Str("true"), Str("false"), Bool(TRUE)}

DateValues ==
    {None, Str("2024-03-09"), Str("2024-03-03"), Str("2024-03-04"), Str("2024-03-11"),
     Str("03/09/2024")}

DateServicedValues == {None, Str("2024-03-05"), Str("2024-03-01"), Str("n/a")}

CustomerValues ==
    {None, Str("cus_A"), Str("cus_B"), List(1, "cus_A"), List(0, ""), Num(7)}

CurrencyValues == {None, Str("usd"), Str("USD"), Str("eur")}

AmountValues == {None, Num(12500), Num(0), Num(-5000), Num(4), Str("12.50")}

QuantityValues == {None, Num(1), Str("two")}

TextValues == {None, Str("Cleaning")}

\* Records every validation rule accepts, serviced before BaseFields: one of
\* the same customer, one of another.
Accepted ==
    {[BaseFields EXCEPT !.dateServiced = Str("2024-03-01")],
     [BaseFields EXCEPT !.customerID = Str("cus_B"),
                        !.dateServiced = Str("2024-03-01")]}

\* The records the ledger may store: BaseFields with one column changed, and
\* the accepted records.
Catalogue ==
    {[BaseFields EXCEPT !.paid = v] : v \in PaidValues}
    \cup {[BaseFields EXCEPT !.date = v] : v \in DateValues}
    \cup {[BaseFields EXCEPT !.dateServiced = v] : v \in DateServicedValues}
    \cup {[BaseFields EXCEPT !.customerID = v] : v \in CustomerValues}
    \cup {[BaseFields EXCEPT !.currencyCode = v] : v \in CurrencyValues}
    \cup {[BaseFields EXCEPT !.amount = v] : v \in AmountValues}
    \cup {[BaseFields EXCEPT !.quantity = v] : v \in QuantityValues}
    \cup {[BaseFields EXCEPT !.item = v] : v \in TextValues}
    \cup {[BaseFields EXCEPT !.property = v] : v \in TextValues}
    \cup Accepted

RecordIDs == 1 .. NumRecords

\* ------------------------------------------------------------------- state

VARIABLES
    ledger,            \* the ledger's table: record id -> field map
    now,               \* time.Now(), in half days
    pc,                \* where the process loop stands
    offset,            \* the pagination cursor; 0 is the empty cursor ""
    records,           \* the records fetched in this pass
    idx,               \* position of the validation loop in records
    customerInvoices,  \* customer id -> the invoice items accepted for it
    done,              \* the customers the charging loop has been through
    customerID,        \* the customer the charging loop is at
    updateFields,      \* the patch written to that customer's records
    upd,               \* position of the update loop in that customer's items
    submitted,         \* this pass: the invoice lines sent, in order
    created,           \* this pass: the invoice creation calls, in order
    requested,         \* this pass: the partial updates requested, in order
    fetchFailed,       \* this pass: a list call failed
    listed,            \* this pass: the list calls made, in order
    faults,            \* the calls that have failed so far
    charges            \* record id -> invoices created with it in the group

vars ==
    <<ledger, now, pc, offset, records, idx, customerInvoices, done, customerID,
      updateFields, upd, submitted, created, requested, fetchFailed,
      listed, faults, charges>>

\* The instant the process starts: noon of 10 March.
StartNow == Midnight(10) + 1

NoFields == [paid |-> None, notes |-> None]

\* The process starts on a ledger that holds, at any place, one record of the
\* catalogue among copies of an accepted record.
Init ==
    /\ ledger \in [RecordIDs -> Catalogue]
    /\ \E odd \in RecordIDs, a \in Accepted :
          \A r \in RecordIDs \ {odd} : ledger[r] = a
    /\ now = StartNow
    /\ pc = "fetch"
    /\ offset = 0
    /\ records = <<>>
    /\ idx = 1
    /\ customerInvoices = <<>>
    /\ done = {}
    /\ customerID = ""
    /\ updateFields = NoFields
    /\ upd = 1
    /\ submitted = <<>>
    /\ created = <<>>
    /\ requested = <<>>
    /\ fetchFailed = FALSE
    /\ listed = <<>>
    /\ faults = 0
    /\ charges = [r \in RecordIDs |-> 0]

\* ------------------------------------------------------------------- fetch

\* Fault seeded for C2: the filter leaves out only the records paid 'true'.
FilterOnlyTrue(fields) == ~(fields.paid.t = "string" /\ fields.paid.s = "true")

\* The filter the list call sends:
\* AND(NOT({paid} = 'true'), NOT({paid} = 'false')).  The formula compares with
\* string literals: a checkbox value (a JSON boolean) equals neither.
FilterByFormula(fields) ==
    /\ ~(fields.paid.t = "string" /\ fields.paid.s = "true")
    /\ ~(fields.paid.t = "string" /\ fields.paid.s = "false")

RECURSIVE Matching(_)
\* The ids of the records 1 .. n the filter selects, in storage order.
Matching(n) ==
    IF n = 0 THEN <<>>
    ELSE IF FilterByFormula(ledger[n]) THEN Append(Matching(n - 1), n)
    ELSE Matching(n - 1)

\* The columns the list call asks for (the notes column is not among them).
Fetched(id) ==
    [ID |-> id,
     Fields |-> [f \in DOMAIN BaseFields \ {"notes"} |-> ledger[id][f]]]

Min(a, b) == IF a <= b THEN a ELSE b

\* airtableClient.ListFromTable(options) when it succeeds: the page that
\* starts at the cursor, and the cursor of the next page (0 when this is the
\* last one).
ListFromTable(cursor) ==
    LET all == Matching(NumRecords)
        last == Min(cursor + MaxPage, Len(all))
    IN [Records |-> [i \in 1 .. (last - cursor) |-> Fetched(all[cursor + i])],
        Offset |-> IF last < Len(all) THEN last ELSE 0]

\* The inner loop is left: the validation loop starts (it has nothing to do,
\* and neither has the charging loop, when no record was fetched).
AfterFetch(recs) == IF Len(recs) = 0 THEN "sleep" ELSE "validate"

\* Fault seeded for C13: the page fetched replaces the records fetched so far.
FetchPageOverwrites ==
    /\ pc = "fetch"
    /\ LET results == ListFromTable(offset)
       IN /\ records' = results.Records
          /\ listed' = Append(listed, [cursor |-> offset,
                                       err |-> FALSE,
                                       next |-> results.Offset,
                                       page |-> results.Records])
          /\ IF results.Offset = 0
             THEN /\ pc' = AfterFetch(records')
                  /\ offset' = offset
             ELSE /\ pc' = "fetch"
                  /\ offset' = results.Offset
    /\ UNCHANGED <<ledger, now, idx, customerInvoices, done, customerID,
                   updateFields, upd, submitted, created, requested,
                   fetchFailed, faults, charges>>

\* fetchAirtableRecords(offset) returns a page.
FetchPage ==
    /\ pc = "fetch"
    /\ LET results == ListFromTable(offset)
       IN /\ records' = records \o results.Records
          /\ listed' = Append(listed, [cursor |-> offset,
                                       err |-> FALSE,
                                       next |-> results.Offset,
                                       page |-> results.Records])
          /\ IF results.Offset = 0
             THEN /\ pc' = AfterFetch(records')
                  /\ offset' = offset
             ELSE /\ pc' = "fetch"
                  /\ offset' = results.Offset
    /\ UNCHANGED <<ledger, now, idx, customerInvoices, done, customerID,
                   updateFields, upd, submitted, created, requested,
                   fetchFailed, faults, charges>>

\* fetchAirtableRecords(offset) returns an error: the inner loop breaks.
FetchError ==
    /\ pc = "fetch"
    /\ faults < MaxFaults
    /\ faults' = faults + 1
    /\ fetchFailed' = TRUE
    /\ listed' = Append(listed, [cursor |-> offset, err |-> TRUE, next |-> 0,
                                 page |-> <<>>])
    /\ pc' = AfterFetch(records)
    /\ UNCHANGED <<ledger, now, offset, records, idx, customerInvoices, done,
                   customerID, updateFields, upd, submitted, created, requested,
                   charges>>

\* -------------------------------------------------------------- validation

\* The customer id column: a link list gives its first element ("" when it
\* is empty), a string gives itself, any other kind leaves customerID "".
ResolveCustomer(val) ==
    CASE val.t = "list" -> IF val.n > 0 THEN val.s ELSE ""
      [] val.t = "string" -> val.s
      [] OTHER -> ""

\* Fault seeded for C3: the paid column is not looked at.
PaidCheckDropped(val) == "pass"

\* The paid column check: a record whose paid value prints as "true" is
\* skipped.
PaidCheck(val) == IF Has(val) /\ SprintfV(val) = "true" THEN "skip" ELSE "pass"

\* Fault seeded for C9: a record without a date column is let through.
BillingDateCheckAbsentPasses(val, t) ==
    LET date == ParseInLocation(SprintfV(val))
    IN IF Has(val) /\ ~date.err
       THEN IF ~(t > Midnight(date.day)) THEN "skip"
            ELSE IF Midnight(date.day) < AddDate(t, staleDays) THEN "skip"
            ELSE "pass"
       ELSE "pass"

\* Fault seeded for C11: a date that is not yet passed is let through.
BillingDateCheckFuturePasses(val, t) ==
    LET date == ParseInLocation(SprintfV(val))
    IN IF Has(val)
       THEN IF ~date.err
            THEN IF Midnight(date.day) < AddDate(t, staleDays) THEN "skip"
                 ELSE "pass"
            ELSE "pass"
       ELSE "skip"

\* Fault seeded for C12: a date older than the stale window is let through.
BillingDateCheckStalePasses(val, t) ==
    LET date == ParseInLocation(SprintfV(val))
    IN IF Has(val)
       THEN IF ~date.err
            THEN IF ~(t > Midnight(date.day)) THEN "skip"
                 ELSE "pass"
            ELSE "pass"
       ELSE "skip"

\* The billing date check: "skip" when the date column is absent, or when the
\* date parses and is not yet passed or is older than the stale window; a date
\* that does not parse is let through.
BillingDateCheck(val, t) ==
    LET date == ParseInLocation(SprintfV(val))
    IN IF Has(val)
       THEN IF ~date.err
            THEN IF ~(t > Midnight(date.day)) THEN "skip"
                 ELSE IF Midnight(date.day) < AddDate(t, staleDays) THEN "skip"
                 ELSE "pass"
            ELSE "pass"
       ELSE "skip"

\* The amount check of a record whose amount column is present: the type
\* assertion invoiceAmount.(float64) panics on any other type; only an amount
\* equal to 0 is skipped.
AmountCheck(val) ==
    IF val.t # "number" THEN "panic"
    ELSE IF val.n = 0 THEN "skip"
    ELSE "pass"

\* The body of the validation loop for one record at instant t: the record is
\* skipped, the process panics, or the invoice item is appended to the
\* customer's items.
Validate(record, t) ==
    LET f == record.Fields
        skip == [outcome |-> "skip"]
        panic == [outcome |-> "panic"]
    IN IF PaidCheck(f.paid) = "skip" THEN skip
       ELSE IF BillingDateCheck(f.date, t) = "skip" THEN skip
       ELSE IF ~Has(f.dateServiced) THEN skip
       ELSE IF ParseInLocation(SprintfV(f.dateServiced)).err THEN skip
       ELSE IF ~Has(f.customerID) THEN skip
       ELSE IF ~Has(f.currencyCode) THEN skip
       ELSE IF ~Has(f.amount) THEN skip
       ELSE IF AmountCheck(f.amount) # "pass"
            THEN [outcome |-> AmountCheck(f.amount)]
       ELSE IF ~Has(f.quantity) THEN skip
       ELSE IF f.quantity.t # "number" THEN panic
       ELSE IF ~Has(f.item) THEN skip
       ELSE IF ~Has(f.property) THEN skip
       ELSE [outcome |-> "accept",
             customerID |-> ResolveCustomer(f.customerID),
             invoice |->
                 [item |-> SprintfV(f.item),
                  quantity |-> f.quantity.n,
                  amount |-> f.amount.n,
                  currencyCode |-> ToLower(SprintfS(f.currencyCode)),
                  property |-> SprintfV(f.property),
                  airtableRecordID |-> record.ID,
                  dateServiced |-> ParseInLocation(SprintfV(f.dateServiced)).day]]

\* customerInvoices[customerID] = append(customerInvoices[customerID], invoice)
AppendInvoice(m, c, invoice) ==
    IF c \in DOMAIN m
    THEN [m EXCEPT ![c] = Append(@, invoice)]
    ELSE [k \in DOMAIN m \cup {c} |-> IF k = c THEN <<invoice>> ELSE m[k]]

\* The validation loop is through: the charging loop starts (it has nothing
\* to do when no record was accepted).
AfterValidate(m) == IF DOMAIN m = {} THEN "sleep" ELSE "charge"

\* One turn of the validation loop.
ValidateRecord ==
    /\ pc = "validate"
    /\ LET v == Validate(records[idx], now)
           m == IF v.outcome = "accept"
                THEN AppendInvoice(customerInvoices, v.customerID, v.invoice)
                ELSE customerInvoices
       IN /\ customerInvoices' = m
          /\ idx' = idx + 1
          /\ pc' = IF v.outcome = "panic" THEN "crashed"
                   ELSE IF idx = Len(records) THEN AfterValidate(m)
                   ELSE "validate"
    /\ UNCHANGED <<ledger, now, offset, records, done, customerID, updateFields,
                   upd, submitted, created, requested, fetchFailed, listed,
                   faults, charges>>

\* ------------------------------------------------------------------ charge

RECURSIVE Insert(_, _)
\* x put into the sorted sequence s before the first element serviced later.
Insert(x, s) ==
    IF s = <<>> THEN <<x>>
    ELSE IF x.dateServiced < Head(s).dateServiced THEN <<x>> \o s
    ELSE <<Head(s)>> \o Insert(x, Tail(s))

RECURSIVE SortByTime(_)
\* sort.Sort(invoiceByTime(s)): s in ascending order of dateServiced.
SortByTime(s) ==
    IF s = <<>> THEN <<>> ELSE Insert(s[Len(s)], SortByTime(SubSeq(s, 1, Len(s) - 1)))

\* Whether chargeStripe sends an invoice line for the item: its currency is
\* usd and its amount is more than 0 minor units.
LineSent(item) == item.currencyCode = "usd" /\ MinorUnits(item.amount) > 0

\* The identifier the processor gives the invoice it creates for a customer.
InvoiceID(customer) == "in_" \o customer

\* Fault seeded for C15: chargeStripe returns at the first refused line with
\* the line's error, without creating the invoice.
chargeStripeEscalates(customer, items, refused, invoiceErr) ==
    LET sent == SelectSeq(items, LineSent)
        stop == IF refused = {} THEN Len(sent)
                ELSE CHOOSE i \in 1 .. Len(sent) :
                         /\ sent[i].airtableRecordID \in refused
                         /\ \A j \in 1 .. i - 1 : sent[j].airtableRecordID \notin refused
    IN [lines |->
            [i \in 1 .. stop |->
                [customer |-> customer,
                 record |-> sent[i].airtableRecordID,
                 amount |-> MinorUnits(sent[i].amount),
                 dateServiced |-> sent[i].dateServiced]],
        lineErr |-> refused # {},
        called |-> Len(items) > 0 /\ refused = {},
        invoiceID |-> IF invoiceErr \/ refused # {} \/ Len(items) <= 0
                      THEN "" ELSE InvoiceID(customer),
        err |-> IF Len(items) <= 0 THEN ""
                ELSE IF refused # {} THEN "line refused"
                ELSE IF invoiceErr THEN "invoice refused" ELSE ""]

\* chargeStripe(customer, items), where the processor refuses the lines sent
\* for the records in refused, and refuses the invoice when
\* invoiceErr: the lines sent in order, whether one of them was refused (which
\* is logged), whether invoice.New was called, and the (invoiceID, err)
\* returned.
chargeStripe(customer, items, refused, invoiceErr) ==
    IF Len(items) <= 0
    THEN [lines |-> <<>>, lineErr |-> FALSE, called |-> FALSE, invoiceID |-> "",
          err |-> ""]
    ELSE [lines |->
              [i \in 1 .. Len(SelectSeq(items, LineSent)) |->
                  LET item == SelectSeq(items, LineSent)[i]
                  IN [customer |-> customer,
                      record |-> item.airtableRecordID,
                      amount |-> MinorUnits(item.amount),
                      dateServiced |-> item.dateServiced]],
          lineErr |-> refused # {},
          called |-> TRUE,
          invoiceID |-> IF invoiceErr THEN "" ELSE InvoiceID(customer),
          err |-> IF invoiceErr THEN "invoice refused" ELSE ""]

\* The items handed to chargeStripe for a customer: the customer's items as
\* the validation loop appended them (the sorted copy is not the one passed).
ChargedItems(invoices) ==
    LET date_sorted_invoices == SortByTime(invoices)
    IN invoices

\* Fault seeded for C4: the paid flag is set whatever chargeStripe returned.
UpdateFieldsAlwaysPaid(result) ==
    [notes |-> IF result.err # ""
               THEN Str("Error charging customer through Stripe: " \o result.err)
               ELSE Str(result.invoiceID),
     paid |-> Str("true")]

\* The patch for the customer's records after chargeStripe returned.
UpdateFields(result) ==
    IF result.err # ""
    THEN [notes |-> Str("Error charging customer through Stripe: " \o result.err),
          paid |-> Str("false")]
    ELSE [notes |-> Str(result.invoiceID), paid |-> Str("true")]

\* The records of a sequence of invoice items.
RecordsOf(items) == {items[i].airtableRecordID : i \in 1 .. Len(items)}

\* One turn of the charging loop up to the update loop: a customer not yet
\* gone through is taken (map order), charged, and the patch is set.
ChargeCustomer ==
    /\ pc = "charge"
    /\ \E c \in DOMAIN customerInvoices \ done :
         LET invoices == customerInvoices[c]
         IN \E refused \in SUBSET RecordsOf(SelectSeq(ChargedItems(invoices), LineSent)),
               invoiceErr \in BOOLEAN :
              LET result == chargeStripe(c, ChargedItems(invoices), refused, invoiceErr)
                  failed == Cardinality(refused) + (IF invoiceErr THEN 1 ELSE 0)
              IN /\ faults + failed <= MaxFaults
                 /\ faults' = faults + failed
                 /\ customerID' = c
                 /\ updateFields' = UpdateFields(result)
                 /\ submitted' = submitted \o result.lines
                 /\ created' =
                        IF result.called
                        THEN Append(created, [customer |-> c,
                                              records |-> RecordsOf(invoices),
                                              invoiceID |-> result.invoiceID,
                                              lineErr |-> result.lineErr,
                                              invoiceErr |-> invoiceErr,
                                              err |-> result.err # ""])
                        ELSE created
                 /\ charges' =
                        [r \in RecordIDs |->
                            IF r \in RecordsOf(invoices) /\ result.called /\ result.err = ""
                            THEN Min(charges[r] + 1, 2)
                            ELSE charges[r]]
    /\ upd' = 1
    /\ pc' = "update"
    /\ UNCHANGED <<ledger, now, offset, records, idx, customerInvoices, done,
                   requested, fetchFailed, listed>>

\* Fault seeded for C18: the pass is over after the first customer.
AfterUpdateFirstOnly(last, through) == IF ~last THEN "update" ELSE "sleep"

\* The update loop is through for the customer: after the pause the charging
\* loop goes to the next customer, or the pass is over.
AfterUpdate(last, through) ==
    IF ~last THEN "update"
    ELSE IF through = DOMAIN customerInvoices THEN "sleep"
    ELSE "charge"

\* Fault seeded for C16: an update the ledger answers with an error ends the
\* update loop of the customer.
PartialUpdateAborts(err) ==
    /\ pc = "update"
    /\ err => faults < MaxFaults
    /\ faults' = IF err THEN faults + 1 ELSE faults
    /\ LET invoices == customerInvoices[customerID]
           id == invoices[upd].airtableRecordID
           last == err \/ upd = Len(invoices)
       IN /\ ledger' =
                 IF err THEN ledger
                 ELSE [ledger EXCEPT ![id].paid = updateFields.paid,
                                     ![id].notes = updateFields.notes]
          /\ requested' = Append(requested, [record |-> id,
                                             customer |-> customerID,
                                             fields |-> updateFields,
                                             err |-> err])
          /\ upd' = upd + 1
          /\ done' = IF last THEN done \cup {customerID} ELSE done
          /\ pc' = AfterUpdate(last, done')
    /\ UNCHANGED <<now, offset, records, idx, customerInvoices, customerID,
                   updateFields, submitted, created, fetchFailed, listed,
                   charges>>

\* One turn of the update loop; the ledger applies the patch (err = FALSE) or
\* answers with an error (err = TRUE), which is logged.
PartialUpdate(err) ==
    /\ pc = "update"
    /\ err => faults < MaxFaults
    /\ faults' = IF err THEN faults + 1 ELSE faults
    /\ LET invoices == customerInvoices[customerID]
           id == invoices[upd].airtableRecordID
           last == upd = Len(invoices)
       IN /\ ledger' =
                 IF err THEN ledger
                 ELSE [ledger EXCEPT ![id].paid = updateFields.paid,
                                     ![id].notes = updateFields.notes]
          /\ requested' = Append(requested, [record |-> id,
                                             customer |-> customerID,
                                             fields |-> updateFields,
                                             err |-> err])
          /\ upd' = upd + 1
          /\ done' = IF last THEN done \cup {customerID} ELSE done
          /\ pc' = AfterUpdate(last, done')
    /\ UNCHANGED <<now, offset, records, idx, customerInvoices, customerID,
                   updateFields, submitted, created, fetchFailed, listed,
                   charges>>

UpdateRecord == PartialUpdate(FALSE)

UpdateError == PartialUpdate(TRUE)

\* ------------------------------------------------------------------- sleep

\* Time passes while the loop sleeps.
Tick ==
    /\ pc = "sleep"
    /\ now < MaxNow
    /\ now' = now + 1
    /\ UNCHANGED <<ledger, pc, offset, records, idx, customerInvoices, done,
                   customerID, updateFields, upd, submitted, created, requested,
                   fetchFailed, listed, faults, charges>>

\* The sleep ends and the next pass starts from the empty cursor.
StartPass ==
    /\ pc = "sleep"
    /\ pc' = "fetch"
    /\ offset' = 0
    /\ records' = <<>>
    /\ idx' = 1
    /\ customerInvoices' = <<>>
    /\ done' = {}
    /\ customerID' = ""
    /\ updateFields' = NoFields
    /\ upd' = 1
    /\ submitted' = <<>>
    /\ created' = <<>>
    /\ requested' = <<>>
    /\ fetchFailed' = FALSE
    /\ listed' = <<>>
    /\ UNCHANGED <<ledger, now, faults, charges>>

Next ==
    \/ FetchPage
    \/ FetchError
    \/ ValidateRecord
    \/ ChargeCustomer
    \/ UpdateRecord
    \/ UpdateError
    \/ Tick
    \/ StartPass

Spec == Init /\ [][Next]_vars

\* ------------------------------------------------------------ properties

\* The ids of the records fetched in this pass.
FetchedIDs == {records[i].ID : i \in 1 .. Len(records)}

\* The records that are in a customer's items in this pass.
Grouped ==
    UNION {RecordsOf(customerInvoices[c]) : c \in DOMAIN customerInvoices}

\* The records of the groups an invoice creation call was made for in this pass.
Charged == UNION {created[i].records : i \in 1 .. Len(created)}

\* The records an invoice line was sent for in this pass.
LineRecords == {submitted[i].record : i \in 1 .. Len(submitted)}

\* The records a partial update was requested for in this pass.
Written == {requested[i].record : i \in 1 .. Len(requested)}

\* The validation loop has been through position i of records.
Validated(i) == pc \in {"charge", "update", "sleep"} \/ (pc = "validate" /\ idx > i)

\* C1, as claimed: no record is in the group of more than one invoice that
\* the processor created, whatever partial updates fail.
C1_NoDoubleCharge == \A r \in RecordIDs : charges[r] <= 1

\* A Failure outcome was written to the record in an earlier pass: the ledger
\* holds paid = "false" with a note, and this pass has not written it.
FailureWrittenEarlier(r) ==
    /\ ledger[r].paid = Str("false")
    /\ ledger[r].notes # None
    /\ r \notin Written

\* C2, as claimed: once the fetch of a pass has gone through without error,
\* every record a Failure outcome was written to earlier is among the records
\* fetched (so that its charge can be attempted again).
C2_FailedRefetched ==
    (pc # "fetch" /\ ~fetchFailed) =>
        \A r \in RecordIDs : FailureWrittenEarlier(r) => r \in FetchedIDs

\* C2, amended: a record a Failure outcome was written to in an earlier pass
\* is left out by the fetch filter (which excludes paid = "false" as well as
\* paid = "true"): it is not fetched, not grouped, not charged and not written
\* again.
C2_FailedNotRetried ==
    \A r \in RecordIDs :
        FailureWrittenEarlier(r) =>
            /\ r \notin FetchedIDs
            /\ r \notin Grouped
            /\ r \notin Charged
            /\ r \notin LineRecords

\* C2's case: a later pass has fetched without error while the ledger holds
\* a record that an earlier pass wrote a Failure outcome to.
C2_Witness ==
    /\ pc \in {"validate", "charge", "update", "sleep"}
    /\ ~fetchFailed
    /\ \E r \in RecordIDs : FailureWrittenEarlier(r)

\* The paid column of the record printed "true" before this pass wrote
\* anything to it.
PaidBefore(r) ==
    /\ Has(ledger[r].paid)
    /\ SprintfV(ledger[r].paid) = "true"
    /\ r \notin Written

\* C3: a record whose paid column prints as "true" is in no customer's items,
\* in no charge, has no invoice line and no partial update; and when every
\* record of the ledger is such a record, the pass makes no invoice call and
\* requests no update.
C3_PaidExcluded ==
    /\ \A r \in RecordIDs :
          PaidBefore(r) =>
              /\ r \notin Grouped
              /\ r \notin Charged
              /\ r \notin LineRecords
    /\ \A i \in 1 .. Len(records) :
          (Has(records[i].Fields.paid) /\ SprintfV(records[i].Fields.paid) = "true")
              => /\ records[i].ID \notin Grouped
                 /\ records[i].ID \notin Charged
                 /\ records[i].ID \notin LineRecords
                 /\ records[i].ID \notin Written
    /\ (\A r \in RecordIDs : PaidBefore(r)) =>
          /\ submitted = <<>>
          /\ created = <<>>
          /\ requested = <<>>

\* C3's case: a pass is over in which a fetched record printed paid "true"
\* while another record of the batch was charged.
C3_Witness ==
    /\ pc = "sleep"
    /\ created # <<>>
    /\ \E i \in 1 .. Len(records) : SprintfV(records[i].Fields.paid) = "true"

\* The invoice creation call of this pass for a customer.
CreatedFor(c) == {created[i] : i \in {j \in 1 .. Len(created) : created[j].customer = c}}

\* C4: every update requested for a record of a charged customer sets exactly
\* the paid and notes columns: paid "true" and the invoice identifier when the
\* invoice was created, paid "false" and a non-empty description when it was
\* not; all the records of a customer get the same patch, and once the update
\* loop is through for a customer each of its records has got one.
C4_GroupMovesTogether ==
    /\ \A i \in 1 .. Len(requested) :
          LET q == requested[i]
          IN /\ DOMAIN q.fields = {"paid", "notes"}
             /\ \E call \in CreatedFor(q.customer) :
                   /\ q.record \in call.records
                   /\ call.err =>
                         /\ q.fields.paid = Str("false")
                         /\ q.fields.notes.t = "string"
                         /\ Len(q.fields.notes.s) > 0
                   /\ ~call.err =>
                         /\ q.fields.paid = Str("true")
                         /\ q.fields.notes = Str(call.invoiceID)
                         /\ call.invoiceID # ""
             /\ \A j \in 1 .. Len(requested) :
                   requested[j].customer = q.customer =>
                       requested[j].fields = q.fields
    /\ \A c \in done : RecordsOf(customerInvoices[c]) \subseteq Written

\* C4's case: the update loop is through for a customer with two records
\* whose invoice the processor refused.
C4_Witness ==
    \E c \in done :
        /\ Len(customerInvoices[c]) >= 2
        /\ \E call \in CreatedFor(c) : call.err

\* C5, as claimed: the invoice lines of a customer are sent in ascending
\* order of service date.
C5_LinesInDateOrder ==
    \A i, j \in 1 .. Len(submitted) :
        (i < j /\ submitted[i].customer = submitted[j].customer)
            => submitted[i].dateServiced <= submitted[j].dateServiced

\* C6, as claimed: a fetched record whose lower-cased currency code is not
\* "usd" is in no customer's items and gets no partial update, and the
\* process does not crash.
C6_NonUsdSkipped ==
    \A i \in 1 .. Len(records) :
        LET f == records[i].Fields
        IN (Has(f.currencyCode) /\ ToLower(SprintfS(f.currencyCode)) # "usd")
               => /\ records[i].ID \notin Grouped
                  /\ records[i].ID \notin Written
                  /\ pc # "crashed"

\* C7, as claimed: every item of every customer has an amount above zero.
C7_AmountsPositive ==
    \A c \in DOMAIN customerInvoices :
        \A i \in 1 .. Len(customerInvoices[c]) : customerInvoices[c][i].amount > 0

\* C8, as claimed: a record whose amount or quantity is present and not a
\* number is skipped and the loop goes on: the process never crashes.
C8_NoCrash == pc # "crashed"

\* C9: a fetched record without the billing date column is in no customer's
\* items.
C9_NoDateSkipped ==
    \A i \in 1 .. Len(records) :
        ~Has(records[i].Fields.date) => records[i].ID \notin Grouped

\* C9's case: the validation loop has been through a record without the
\* billing date column and the pass has gone on to charge another record.
C9_Witness ==
    /\ created # <<>>
    /\ \E i \in 1 .. Len(records) : ~Has(records[i].Fields.date) /\ Validated(i)

\* C10, as claimed: a fetched record whose billing date is present and does
\* not parse is in no customer's items.
C10_BadDateSkipped ==
    \A i \in 1 .. Len(records) :
        LET f == records[i].Fields
        IN (Has(f.date) /\ ParseInLocation(SprintfV(f.date)).err)
               => records[i].ID \notin Grouped

\* The pass is between its fetch and its sleep: now is the instant the
\* validation loop read.
InPass == pc \in {"validate", "charge", "update"}

\* Every column but the billing date is one the validation loop accepts.
ValidButDate(f) ==
    /\ ~Has(f.paid)
    /\ Has(f.dateServiced) /\ ~ParseInLocation(SprintfV(f.dateServiced)).err
    /\ f.customerID.t = "string" /\ f.customerID.s # ""
    /\ f.currencyCode.t = "string" /\ ToLower(f.currencyCode.s) = "usd"
    /\ f.amount.t = "number" /\ f.amount.n > 0
    /\ f.quantity.t = "number"
    /\ Has(f.item)
    /\ Has(f.property)

\* C11: a validated record whose billing date is after now is in no
\* customer's items; a validated record whose billing date now is past, and
\* not older than the stale window, and whose other columns are valid, is in
\* its customer's items.
C11_MonotonicEligibility ==
    InPass =>
        \A i \in 1 .. Len(records) :
            LET f == records[i].Fields
                date == ParseInLocation(SprintfV(f.date))
            IN (Validated(i) /\ Has(f.date) /\ ~date.err) =>
                   /\ Midnight(date.day) > now => records[i].ID \notin Grouped
                   /\ (/\ now > Midnight(date.day)
                       /\ Midnight(date.day) >= AddDate(now, staleDays)
                       /\ ValidButDate(f))
                          => /\ f.customerID.s \in DOMAIN customerInvoices
                             /\ records[i].ID \in RecordsOf(customerInvoices[f.customerID.s])

\* C11's case: the clock has moved on since the process started, and a record
\* whose billing date was after the start instant is in its customer's items.
C11_Witness ==
    /\ InPass
    /\ now > StartNow
    /\ \E i \in 1 .. Len(records) :
          LET date == ParseInLocation(SprintfV(records[i].Fields.date))
          IN /\ ~date.err
             /\ Midnight(date.day) > StartNow
             /\ records[i].ID \in Grouped

\* C12: a validated record whose billing date is older than now + staleDays
\* is in no customer's items, in no charge and has no invoice line.
C12_StaleExcluded ==
    InPass =>
        \A i \in 1 .. Len(records) :
            LET f == records[i].Fields
                date == ParseInLocation(SprintfV(f.date))
            IN (/\ Validated(i)
                /\ Has(f.date)
                /\ ~date.err
                /\ Midnight(date.day) < AddDate(now, staleDays))
                   => /\ records[i].ID \notin Grouped
                      /\ records[i].ID \notin Charged
                      /\ records[i].ID \notin LineRecords

\* C12's case: a record whose billing date was inside the stale window when
\* the process started has fallen out of it, the validation loop has been
\* through it, and another record of the batch has been charged.
C12_Witness ==
    /\ InPass
    /\ created # <<>>
    /\ \E i \in 1 .. Len(records) :
          LET date == ParseInLocation(SprintfV(records[i].Fields.date))
          IN /\ Validated(i)
             /\ ~date.err
             /\ Midnight(date.day) >= AddDate(StartNow, staleDays)
             /\ Midnight(date.day) < AddDate(now, staleDays)

RECURSIVE Pages(_)
\* The pages of the first k list calls of this pass, one after the other.
Pages(k) == IF k = 0 THEN <<>> ELSE Pages(k - 1) \o listed[k].page

\* C13: the first list call of a pass has the empty cursor; a further call is
\* made only after a response with a non-empty cursor, and with that cursor;
\* the fetch goes on exactly while the last response had one; the records
\* handed to validation are the pages one after the other, no record twice;
\* and when no call failed they are all the records the filter selects, in
\* storage order.
C13_Pagination ==
    /\ listed # <<>> => listed[1].cursor = 0
    /\ \A k \in 1 .. Len(listed) - 1 :
          /\ ~listed[k].err
          /\ listed[k].next # 0
          /\ listed[k + 1].cursor = listed[k].next
    /\ (pc = "fetch" /\ listed # <<>>) =>
          (~listed[Len(listed)].err /\ listed[Len(listed)].next # 0)
    /\ (pc # "fetch" /\ ~fetchFailed) =>
          (listed # <<>> /\ listed[Len(listed)].next = 0)
    /\ records = Pages(Len(listed))
    /\ \A i, j \in 1 .. Len(records) : records[i].ID = records[j].ID => i = j
    /\ (pc # "fetch" /\ ~fetchFailed /\ requested = <<>>) =>
          [i \in 1 .. Len(records) |-> records[i].ID] = Matching(NumRecords)

\* C13's case: the fetch of a pass is through after a full page with a cursor
\* and a last page without one, and the batch holds the records of both.
C13_Witness ==
    /\ pc # "fetch"
    /\ ~fetchFailed
    /\ Len(listed) = 2
    /\ Len(listed[1].page) = MaxPage
    /\ listed[2].page # <<>>
    /\ Len(records) = MaxPage + Len(listed[2].page)

\* C14, as claimed: after a list call of a pass has failed the loop does not
\* terminate; it goes on to its sleep.
C14_FetchFailureGoesOn == fetchFailed => pc # "crashed"

\* C15: a refused invoice line is not escalated: every line of the group is
\* still sent and the invoice creation call is still made; the outcome of a
\* group is Failure (paid "false" and the error note) exactly when the invoice
\* creation call was refused, and Success with the invoice identifier
\* otherwise.
C15_ItemizedOutcome ==
    /\ \A k \in 1 .. Len(created) :
          LET e == created[k]
              invoices == customerInvoices[e.customer]
          IN /\ e.err <=> e.invoiceErr
             /\ e.invoiceID = IF e.invoiceErr THEN "" ELSE InvoiceID(e.customer)
             /\ \A i \in 1 .. Len(invoices) :
                   LineSent(invoices[i]) => invoices[i].airtableRecordID \in LineRecords
    /\ pc = "update" =>
          /\ created # <<>>
          /\ LET e == created[Len(created)]
             IN /\ e.customer = customerID
                /\ updateFields.paid = Str(IF e.invoiceErr THEN "false" ELSE "true")
                /\ ~e.invoiceErr => updateFields.notes = Str(e.invoiceID)
    /\ \A k \in 1 .. Len(requested) :
          \E e \in CreatedFor(requested[k].customer) :
              requested[k].fields.paid = Str(IF e.invoiceErr THEN "false" ELSE "true")

\* A group of two lines of which one was refused: the invoice was created and
\* the group's records are written as paid.
C15_Witness ==
    /\ pc = "update"
    /\ created # <<>>
    /\ created[Len(created)].lineErr
    /\ ~created[Len(created)].err
    /\ Cardinality(created[Len(created)].records \cap LineRecords) >= 2
    /\ updateFields.paid = Str("true")

\* The program's one thread of control always takes its next step.
LiveSpec == Spec /\ WF_vars(Next)

\* An update of this pass was answered with an error.
UpdateFailed == \E k \in 1 .. Len(requested) : requested[k].err

\* The rest of the pass is not blocked: the customers gone through have had
\* an update requested for every record of their group, the customer in hand
\* for every record before upd, and a pass at its sleep has charged every
\* group and requested the update of every grouped record.
UpdatesGoOn ==
    /\ pc # "crashed"
    /\ \A c \in done :
          /\ CreatedFor(c) # {}
          /\ RecordsOf(customerInvoices[c]) \subseteq Written
    /\ pc = "update" =>
          /\ upd <= Len(customerInvoices[customerID])
          /\ \A i \in 1 .. upd - 1 :
                customerInvoices[customerID][i].airtableRecordID \in Written
    /\ pc = "charge" => DOMAIN customerInvoices \ done # {}
    /\ pc = "sleep" =>
          /\ done = DOMAIN customerInvoices
          /\ Grouped \subseteq Charged
          /\ Grouped \subseteq Written

\* C16: after a partial update has failed, the updates of the remaining
\* records of the group are still requested, the following groups are still
\* charged and written, and the pass reaches its sleep.
C16_UpdateFailureTolerated ==
    /\ [](UpdateFailed => UpdatesGoOn)
    /\ UpdateFailed ~> (pc = "sleep")

\* A pass at its sleep whose first update failed, and which went on to
\* request the update of a sibling record and to charge and write a second
\* group.
C16_Witness ==
    /\ pc = "sleep"
    /\ Len(requested) = NumRecords
    /\ requested[1].err
    /\ requested[2].customer = requested[1].customer
    /\ requested[2].record # requested[1].record
    /\ requested[NumRecords].customer # requested[1].customer
    /\ ~requested[NumRecords].err
    /\ ledger[requested[NumRecords].record].paid = Str("true")
    /\ Len(created) = 2

\* C17, as claimed: no customer group, invoice creation call or ledger write
\* is keyed by the empty customer identifier.
C17_NoEmptyCustomerKey ==
    /\ "" \notin DOMAIN customerInvoices
    /\ \A k \in 1 .. Len(created) : created[k].customer # ""
    /\ \A k \in 1 .. Len(requested) : requested[k].customer # ""

\* The customers an invoice creation call was made for in this pass.
Called == {created[k].customer : k \in 1 .. Len(created)}

C19_PaidOnlyIfLineSent ==
    \A k \in 1 .. Len(requested) :
        (~requested[k].err /\ requested[k].fields.paid = Str("true"))
            => requested[k].record \in LineRecords

\* C20, as claimed: when a pass whose list call failed on a later page is
\* over, every record of the pages fetched before has been through
\* validation, and every record validation accepted has been charged with its
\* group and has had its update requested.
C20_FetchedPagesProcessed ==
    (fetchFailed /\ records # <<>> /\ pc \in {"sleep", "crashed"}) =>
        /\ \A i \in 1 .. Len(records) : Validated(i)
        /\ Grouped \subseteq Charged
        /\ Grouped \subseteq Written

====
